---------------------------- MODULE Spec2Model ----------------------------
(***************************************************************************)
(* Model of src/main.rs: a sequential HTTP/1.1 static file server.        *)
(*                                                                         *)
(* Text is modelled as a sequence of one-character strings, so that the    *)
(* splitting, percent-decoding and normalisation of the source are         *)
(* computed character by character, as the code computes them.            *)
(***************************************************************************)
EXTENDS Integers, Sequences, FiniteSets, TLC

VARIABLES
    fs,       \* the served directory tree: node (sequence of names) -> "file" | "dir"
    server,   \* the process: "listening" | "aborted" (panic) | "exited" (main returned Err)
    pc,       \* position of main/process_request on the current connection
    input,    \* the text lines the client sent on the current connection
    request,  \* ReqInfo built by parse_request
    path,     \* the local `path` of process_request after normalisation
    file,     \* the local `file` of process_request: <<>> (None) or <<p>> (Some(p))
    wire,     \* what has been written to the current connection, one item per write_all
    hops,     \* number of redirects the current client has followed so far
    arg,      \* argument of the pure function under test (function harnesses only)
    ret       \* successive results of the pure function under test

vars == <<fs, server, pc, input, request, path, file, wire, hops, arg, ret>>

---------------------------------------------------------------------------
(* Bounds of the model.                                                    *)

MaxSegs == 3       \* path segments in a request target
MaxLen == 7        \* length of a raw path given to normalize_path
MaxParts == 3      \* dot-separated parts of a file name given to mime_type
MaxHops == 2       \* redirects a client is willing to follow

---------------------------------------------------------------------------
(* Text helpers: str::split, str::split_once, join, starts_with, ends_with *)

RECURSIVE SplitAcc(_, _, _, _)
SplitAcc(s, sep, cur, acc) ==
    IF s = <<>> THEN Append(acc, cur)
    ELSE IF Head(s) = sep THEN SplitAcc(Tail(s), sep, <<>>, Append(acc, cur))
    ELSE SplitAcc(Tail(s), sep, Append(cur, Head(s)), acc)

Split(s, sep) == SplitAcc(s, sep, <<>>, <<>>)

RECURSIVE Join(_, _)
Join(parts, sep) ==
    IF parts = <<>> THEN <<>>
    ELSE IF Len(parts) = 1 THEN parts[1]
    ELSE parts[1] \o sep \o Join(Tail(parts), sep)

Contains(s, c) == \E i \in 1..Len(s) : s[i] = c

FirstIndex(s, c) == CHOOSE i \in 1..Len(s) : s[i] = c /\ \A j \in 1..(i - 1) : s[j] # c

\* str::split_once(c): the text before the first c, or the whole text when there is none
BeforeFirst(s, c) == IF Contains(s, c) THEN SubSeq(s, 1, FirstIndex(s, c) - 1) ELSE s

starts_with(s, c) == s # <<>> /\ s[1] = c

ends_with(s, c) == s # <<>> /\ s[Len(s)] = c

Replace(s, from, to) == [i \in 1..Len(s) |-> IF s[i] = from THEN to ELSE s[i]]

---------------------------------------------------------------------------
(* normalize_path                                                          *)

DOT == <<".">>
DOTDOT == <<".", ".">>
SLASH == <<"/">>

RECURSIVE NormalizeParts(_, _)
NormalizeParts(parts, res) ==
    IF parts = <<>> THEN res
    ELSE LET part == Head(parts) IN
         IF part = <<>> \/ part = DOT THEN NormalizeParts(Tail(parts), res)
         ELSE IF part = DOTDOT
              THEN NormalizeParts(Tail(parts),
                                  IF res = <<>> THEN res ELSE SubSeq(res, 1, Len(res) - 1))
              ELSE NormalizeParts(Tail(parts), Append(res, part))

\* normalize_path that keeps ".." as an ordinary segment
RECURSIVE NormalizePartsKeepDotDot(_, _)
NormalizePartsKeepDotDot(parts, res) ==
    IF parts = <<>> THEN res
    ELSE LET part == Head(parts) IN
         IF part = <<>> \/ part = DOT THEN NormalizePartsKeepDotDot(Tail(parts), res)
         ELSE NormalizePartsKeepDotDot(Tail(parts), Append(res, part))

normalize_path_KeepDotDot(p) == Join(NormalizePartsKeepDotDot(Split(p, "/"), <<>>), SLASH)

\* normalize_path that accepts each segment in front of (not behind) the
\* segments accepted so far
RECURSIVE NormalizePartsFront(_, _)
NormalizePartsFront(parts, res) ==
    IF parts = <<>> THEN res
    ELSE LET part == Head(parts) IN
         IF part = <<>> \/ part = DOT THEN NormalizePartsFront(Tail(parts), res)
         ELSE IF part = DOTDOT
              THEN NormalizePartsFront(Tail(parts),
                                       IF res = <<>> THEN res ELSE SubSeq(res, 1, Len(res) - 1))
              ELSE NormalizePartsFront(Tail(parts), <<part>> \o res)

normalize_path_Front(p) == Join(NormalizePartsFront(Split(p, "/"), <<>>), SLASH)

normalize_path(p) == Join(NormalizeParts(Split(p, "/"), <<>>), SLASH)

---------------------------------------------------------------------------
(* url_decode                                                              *)

HexChars == <<"0", "1", "2", "3", "4", "5", "6", "7", "8", "9",
              "a", "b", "c", "d", "e", "f">>
HexCharsUpper == <<"0", "1", "2", "3", "4", "5", "6", "7", "8", "9",
                   "A", "B", "C", "D", "E", "F">>

IsHex(c) == \E i \in 1..16 : HexChars[i] = c \/ HexCharsUpper[i] = c

HexVal(c) == (CHOOSE i \in 1..16 : HexChars[i] = c \/ HexCharsUpper[i] = c) - 1

\* `byte as char`: the character whose code point is the byte
Chr(b) ==
    CASE b = 32 -> " "
      [] b = 37 -> "%"
      [] b = 43 -> "+"
      [] b = 46 -> "."
      [] b = 47 -> "/"
      [] b = 63 -> "?"
      [] b = 97 -> "a"
      [] OTHER -> "U+" \o ToString(b)

\* the scan of url_decode; ok = FALSE is the panic of line 110 (unwrap) or 113
RECURSIVE DecodeScan(_, _)
DecodeScan(s, res) ==
    IF s = <<>> THEN [ok |-> TRUE, val |-> res]
    ELSE IF Head(s) = "%"
         THEN IF Len(s) >= 3 /\ IsHex(s[2]) /\ IsHex(s[3])
              THEN DecodeScan(SubSeq(s, 4, Len(s)),
                              Append(res, Chr(16 * HexVal(s[2]) + HexVal(s[3]))))
              ELSE [ok |-> FALSE, val |-> <<>>]
         ELSE DecodeScan(Tail(s), Append(res, Head(s)))

\* url_decode that copies a malformed escape instead of failing on it
RECURSIVE DecodeScanLenient(_, _)
DecodeScanLenient(s, res) ==
    IF s = <<>> THEN [ok |-> TRUE, val |-> res]
    ELSE IF Head(s) = "%" /\ Len(s) >= 3 /\ IsHex(s[2]) /\ IsHex(s[3])
         THEN DecodeScanLenient(SubSeq(s, 4, Len(s)),
                                Append(res, Chr(16 * HexVal(s[2]) + HexVal(s[3]))))
         ELSE DecodeScanLenient(Tail(s), Append(res, Head(s)))

url_decode_Lenient(s) == DecodeScanLenient(Replace(s, "+", " "), <<>>)

url_decode(s) == DecodeScan(Replace(s, "+", " "), <<>>)

---------------------------------------------------------------------------
(* mime_type                                                               *)

DEFAULT_MIME_TYPE == "application/octet-stream"

HTML == <<"h", "t", "m", "l">>
HTM == <<"h", "t", "m">>
JPEG == <<"j", "p", "e", "g">>
JPG == <<"j", "p", "g">>
PNG == <<"p", "n", "g">>
TXT == <<"t", "x", "t">>
CSS == <<"c", "s", "s">>
JS == <<"j", "s">>
JSON == <<"j", "s", "o", "n">>

\* Path::file_name: the last component, None (<<>>) when there is none or it is ".."
file_name(file_path) ==
    LET comps == SelectSeq(Split(file_path, "/"), LAMBDA c : c # <<>> /\ c # DOT) IN
    IF comps = <<>> \/ comps[Len(comps)] = DOTDOT THEN <<>>
    ELSE <<comps[Len(comps)]>>

\* ok = FALSE is the panic of line 202
mime_type(file_path) ==
    LET filename == file_name(file_path) IN
    IF filename = <<>> THEN [ok |-> FALSE, val |-> ""]
    ELSE LET parts == Split(filename[1], ".")
             ext == parts[Len(parts)]
         IN [ok |-> TRUE,
             val |-> IF ext = HTML \/ ext = HTM THEN "text/html"
                     ELSE IF ext = JPEG \/ ext = JPG THEN "image/jpeg"
                     ELSE IF ext = PNG THEN "image/png"
                     ELSE IF ext = TXT THEN "text/plain"
                     ELSE IF ext = CSS THEN "text/css"
                     ELSE IF ext = JS THEN "text/javascript"
                     ELSE IF ext = JSON THEN "application/json"
                     ELSE DEFAULT_MIME_TYPE]

---------------------------------------------------------------------------
(* The filesystem consulted by Path::is_file and Path::is_dir.  The        *)
(* process's working directory is the served root (set_current_dir), so    *)
(* every path is looked up from the root node <<>>.                        *)

A == <<"a">>
INDEX_HTML == <<"i", "n", "d", "e", "x", ".", "h", "t", "m", "l">>
INDEX_HTM == <<"i", "n", "d", "e", "x", ".", "h", "t", "m">>

Nodes == {<<>>, <<INDEX_HTML>>, <<A>>, <<A, INDEX_HTML>>, <<A, INDEX_HTM>>}

Kinds == {"none", "file", "dir"}

MkFs(rootIndex, a, aIndexHtml, aIndexHtm) ==
    [n \in Nodes |->
        IF n = <<>> THEN "dir"
        ELSE IF n = <<INDEX_HTML>> THEN rootIndex
        ELSE IF n = <<A>> THEN a
        ELSE IF n = <<A, INDEX_HTML>> THEN aIndexHtml
        ELSE aIndexHtm]

\* an entry exists only inside a directory
FileSystems ==
    {MkFs(r, "none", "none", "none") : r \in {"none", "file"}}
    \cup {MkFs("none", "file", "none", "none")}
    \cup {MkFs("none", "dir", h, m) : h \in Kinds, m \in Kinds}

\* the walk of a path lookup from the node `node` of kind `kind`; "outside"
\* when a ".." steps above the served root
RECURSIVE KindAt(_, _, _, _)
KindAt(f, segs, node, kind) ==
    IF segs = <<>> THEN kind
    ELSE IF kind # "dir" THEN "none"
    ELSE LET seg == Head(segs) IN
         IF seg = <<>> \/ seg = DOT THEN KindAt(f, Tail(segs), node, kind)
         ELSE IF seg = DOTDOT
              THEN IF node = <<>> THEN "outside"
                   ELSE KindAt(f, Tail(segs), SubSeq(node, 1, Len(node) - 1), "dir")
              ELSE LET n == Append(node, seg) IN
                   KindAt(f, Tail(segs), n, IF n \in DOMAIN f THEN f[n] ELSE "none")

Kind(f, p) == IF p = <<>> THEN "none" ELSE KindAt(f, Split(p, "/"), <<>>, "dir")

is_file(f, p) == Kind(f, p) = "file"

is_dir(f, p) == Kind(f, p) = "dir"

---------------------------------------------------------------------------
(* parse_request                                                           *)

EmptyReq == [method |-> <<>>, path |-> <<>>, version |-> <<>>, headers |-> <<>>]

\* the header loop of lines 61-70: key/value pairs until a line without ':'
RECURSIVE ParseHeaders(_, _)
ParseHeaders(lines, headers) ==
    IF lines = <<>> THEN headers
    ELSE LET line == Head(lines) IN
         IF ~Contains(line, ":") THEN headers
         ELSE LET i == FirstIndex(line, ":")
                  key == SubSeq(line, 1, i - 1)
                  value == SubSeq(line, i + 1, Len(line))
              IN ParseHeaders(Tail(lines),
                              [k \in (DOMAIN headers) \cup {key} |->
                                  IF k = key THEN value ELSE headers[k]])

\* ok = FALSE is the panic of line 53 or 57
parse_request(lines) ==
    IF lines = <<>> THEN [ok |-> FALSE, val |-> EmptyReq]
    ELSE LET status_iter == Split(lines[1], " ") IN
         IF Len(status_iter) < 3 THEN [ok |-> FALSE, val |-> EmptyReq]
         ELSE [ok |-> TRUE,
               val |-> [method |-> status_iter[1],
                        path |-> status_iter[2],
                        version |-> status_iter[3],
                        headers |-> ParseHeaders(Tail(lines), <<>>)]]

---------------------------------------------------------------------------
(* process_request                                                         *)

GET == <<"G", "E", "T">>
HTTP11 == <<"H", "T", "T", "P", "/", "1", ".", "1">>

\* lines 230-238: the three validation panics
Valid(req) ==
    /\ req.version = HTTP11
    /\ req.method = GET
    /\ starts_with(req.path, "/")

\* lines 242-252: strip the query, decode, normalise, "." for the root;
\* ok = FALSE is the panic of url_decode
ResolvePath(reqPath) ==
    LET decoded == url_decode(BeforeFirst(reqPath, "?")) IN
    IF ~decoded.ok THEN [ok |-> FALSE, val |-> <<>>]
    ELSE LET p == normalize_path(decoded.val) IN
         [ok |-> TRUE, val |-> IF p = <<>> THEN DOT ELSE p]

\* FindFile with index.htm tried before index.html
FindFile_HtmFirst(f, p) ==
    LET to_try == <<p, p \o SLASH \o INDEX_HTM, p \o SLASH \o INDEX_HTML>> IN
    IF is_file(f, to_try[1]) THEN <<to_try[1]>>
    ELSE IF is_file(f, to_try[2]) THEN <<to_try[2]>>
    ELSE IF is_file(f, to_try[3]) THEN <<to_try[3]>>
    ELSE <<>>

\* lines 255-267: the first of path, path/index.html, path/index.htm that is
\* a regular file: <<try>>, or <<>> when none is
FindFile(f, p) ==
    LET to_try == <<p, p \o SLASH \o INDEX_HTML, p \o SLASH \o INDEX_HTM>> IN
    IF is_file(f, to_try[1]) THEN <<to_try[1]>>
    ELSE IF is_file(f, to_try[2]) THEN <<to_try[2]>>
    ELSE IF is_file(f, to_try[3]) THEN <<to_try[3]>>
    ELSE <<>>

CRLF == "\r\n"

\* one write_all of a line of text: a literal, an interpolated value, CRLF
Line(text, value) == [kind |-> "line", text |-> text, arg |-> value, tail |-> CRLF]

\* the bytes of a file streamed by send_file
FileBytes(p) == [kind |-> "file", text |-> "", arg |-> p, tail |-> ""]

\* the document built by list_directory
ListingBytes(p) == [kind |-> "listing", text |-> "", arg |-> p, tail |-> ""]

\* Response with the trailing-slash test made on the query-stripped path
Response_StrippedSlashTest(f, reqPath, p, fl) ==
    IF fl # <<>>
    THEN << Line("HTTP/1.1 200 OK", <<>>),
            Line("Content-Type: " \o mime_type(fl[1]).val, <<>>),
            Line("", <<>>),
            FileBytes(fl[1]) >>
    ELSE IF is_dir(f, p)
         THEN IF ~ends_with(BeforeFirst(reqPath, "?"), "/")
              THEN << Line("HTTP/1.1 301 Moved Permanently", <<>>),
                      Line("Location: ", reqPath \o SLASH),
                      Line("", <<>>) >>
              ELSE << Line("HTTP/1.1 200 OK", <<>>),
                      Line("Content-Type: text/html; charset=utf-8", <<>>),
                      Line("", <<>>),
                      ListingBytes(p) >>
         ELSE << Line("HTTP/1.1 404 Not Found", <<>>) >>

\* lines 271-292: the sequence of writes of a response
Response(f, reqPath, p, fl) ==
    IF fl # <<>>
    THEN << Line("HTTP/1.1 200 OK", <<>>),
            Line("Content-Type: " \o mime_type(fl[1]).val, <<>>),
            Line("", <<>>),
            FileBytes(fl[1]) >>
    ELSE IF is_dir(f, p)
         THEN IF ~ends_with(reqPath, "/")
              THEN << Line("HTTP/1.1 301 Moved Permanently", <<>>),
                      Line("Location: ", reqPath \o SLASH),
                      Line("", <<>>) >>
              ELSE << Line("HTTP/1.1 200 OK", <<>>),
                      Line("Content-Type: text/html; charset=utf-8", <<>>),
                      Line("", <<>>),
                      ListingBytes(p) >>
         ELSE << Line("HTTP/1.1 404 Not Found", <<>>) >>

---------------------------------------------------------------------------
(* What clients send.                                                      *)

POST == <<"P", "O", "S", "T">>
HTTP10 == <<"H", "T", "T", "P", "/", "1", ".", "0">>
SP == <<" ">>
ENC_DOTDOT == <<"%", "2", "e", "%", "2", "e">>
ENC_SLASH == <<"%", "2", "F">>

Segs == {<<>>, DOT, DOTDOT, ENC_DOTDOT, A}

Seps == {SLASH, ENC_SLASH}

Queries == {<<>>, <<"?", "q">>, <<"?", "/">>}

\* n segments joined by the separator sep
RECURSIVE PathsOf(_, _)
PathsOf(n, sep) ==
    IF n = 0 THEN {<<>>}
    ELSE IF n = 1 THEN Segs
    ELSE {p \o sep \o s : p \in PathsOf(n - 1, sep), s \in Segs}

Targets ==
    {SLASH \o p \o q : p \in UNION {PathsOf(n, sep) : n \in 0..MaxSegs, sep \in Seps},
                       q \in Queries}

\* malformed escapes, an escape of a plain letter, a '+', a relative target
OddTargets == {<<"/", "%">>, <<"/", "%", "2">>, <<"/", "%", "a", "/">>, <<"/", "a", "?", "%">>, <<"/", "%", "6", "1">>, <<"/", "a", "+">>, <<"a">>, <<"a", "/">>, <<>>}

RequestLine(method, target, version) == method \o SP \o target \o SP \o version

RequestLines ==
    {RequestLine(GET, t, HTTP11) : t \in Targets \cup OddTargets}
    \cup {RequestLine(m, t, v) : m \in {GET, POST}, t \in {<<"/">>, <<"/", "a">>}, v \in {HTTP11, HTTP10}}
    \cup {<<>>, GET, GET \o SP \o SLASH, GET \o SP \o SP \o SLASH \o SP \o HTTP11}
    \cup {RequestLine(GET, t, HTTP11) \o SP \o x : t \in {<<"/">>, <<"/", "a">>, <<"/", "%">>}, x \in {<<>>, <<"x">>}}

HeaderLines == {<<>>, << <<"H", "o", "s", "t", ":", "a">>, <<>> >>, << <<"H", "o", "s", "t", ":", "a">>, <<"H", "o", "s", "t", ":", "b">> >>}

Connections ==
    {<<>>}
    \cup {<<l>> : l \in RequestLines}
    \cup {<<RequestLine(GET, t, HTTP11)>> \o h : t \in {<<"/">>, <<"/", "a">>}, h \in HeaderLines}

---------------------------------------------------------------------------
(* main: the accept loop, and process_request step by step.                *)

Init ==
    /\ fs \in FileSystems
    /\ server = "listening"
    /\ pc = "accept"
    /\ input = <<>>
    /\ request = EmptyReq
    /\ path = <<>>
    /\ file = <<>>
    /\ wire = <<>>
    /\ hops = 0
    /\ arg = <<>>
    /\ ret = <<>>

\* a panic unwinds main: the process is gone
Panic ==
    /\ server' = "aborted"
    /\ pc' = "panicked"

\* line 355: listener.accept() hands over a new connection
Accept ==
    /\ server = "listening"
    /\ pc = "accept"
    /\ \E c \in Connections : input' = c
    /\ pc' = "parse"
    /\ hops' = 0
    /\ UNCHANGED <<fs, server, request, path, file, wire, arg, ret>>

\* line 228
ParseRequest ==
    /\ server = "listening"
    /\ pc = "parse"
    /\ LET parsed == parse_request(input) IN
       IF parsed.ok
       THEN /\ request' = parsed.val
            /\ pc' = "validate"
            /\ UNCHANGED server
       ELSE /\ Panic
            /\ UNCHANGED request
    /\ UNCHANGED <<fs, input, path, file, wire, hops, arg, ret>>

\* lines 230-239
Validate ==
    /\ server = "listening"
    /\ pc = "validate"
    /\ IF Valid(request)
       THEN /\ pc' = "resolve"
            /\ UNCHANGED server
       ELSE Panic
    /\ UNCHANGED <<fs, input, request, path, file, wire, hops, arg, ret>>

\* lines 242-267
Resolve ==
    /\ server = "listening"
    /\ pc = "resolve"
    /\ LET resolved == ResolvePath(request.path) IN
       IF resolved.ok
       THEN /\ path' = resolved.val
            /\ file' = FindFile(fs, resolved.val)
            /\ pc' = "respond"
            /\ UNCHANGED server
       ELSE /\ Panic
            /\ UNCHANGED <<path, file>>
    /\ UNCHANGED <<fs, input, request, wire, hops, arg, ret>>

\* lines 269-294, every write succeeding
Respond ==
    /\ server = "listening"
    /\ pc = "respond"
    /\ LET full == Response(fs, request.path, path, file) IN
       IF file # <<>> /\ ~mime_type(file[1]).ok
       THEN /\ wire' = <<full[1]>>
            /\ Panic
       ELSE /\ wire' = full
            /\ pc' = "done"
            /\ UNCHANGED server
    /\ UNCHANGED <<fs, input, request, path, file, hops, arg, ret>>

\* lines 269-292 when the k+1-th write (or the read of the file or of the
\* directory that feeds it) fails: `?` returns the error, and line 357
\* returns it from main
RespondIOError ==
    /\ server = "listening"
    /\ pc = "respond"
    /\ LET full == Response(fs, request.path, path, file) IN
       \E k \in 0..(Len(full) - 1) : wire' = SubSeq(full, 1, k)
    /\ server' = "exited"
    /\ pc' = "failed"
    /\ UNCHANGED <<fs, input, request, path, file, hops, arg, ret>>

\* line 294 and the loop of line 354: the connection is dropped
Return ==
    /\ server = "listening"
    /\ pc = "done"
    /\ pc' = "accept"
    /\ input' = <<>>
    /\ request' = EmptyReq
    /\ path' = <<>>
    /\ file' = <<>>
    /\ wire' = <<>>
    /\ hops' = 0
    /\ UNCHANGED <<fs, server, arg, ret>>

StatusOf(w) == w[1].text

IsRedirect(w) == w # <<>> /\ StatusOf(w) = "HTTP/1.1 301 Moved Permanently"

LocationOf(w) == w[2].arg

\* the client of a 301 asks again for the Location it was sent: the
\* connection is dropped (Return) and the next one accepted carries it
FollowRedirect ==
    /\ server = "listening"
    /\ pc = "done"
    /\ IsRedirect(wire)
    /\ hops < MaxHops
    /\ input' = <<RequestLine(GET, LocationOf(wire), HTTP11)>>
    /\ pc' = "parse"
    /\ request' = EmptyReq
    /\ path' = <<>>
    /\ file' = <<>>
    /\ wire' = <<>>
    /\ hops' = hops + 1
    /\ UNCHANGED <<fs, server, arg, ret>>

Next ==
    \/ Accept
    \/ ParseRequest
    \/ Validate
    \/ Resolve
    \/ Respond
    \/ RespondIOError
    \/ Return
    \/ FollowRedirect

Spec == Init /\ [][Next]_vars

---------------------------------------------------------------------------
(* Harness for normalize_path: apply it to a raw path, then to its result. *)

PathAlphabet == {"/", ".", "a"}

RECURSIVE StringsUpTo(_, _)
StringsUpTo(alphabet, n) ==
    IF n = 0 THEN {<<>>}
    ELSE LET shorter == StringsUpTo(alphabet, n - 1) IN
         shorter \cup {Append(s, c) : s \in {t \in shorter : Len(t) = n - 1}, c \in alphabet}

Idle ==
    /\ fs = <<>>
    /\ server = "listening"
    /\ pc = "harness"
    /\ input = <<>>
    /\ request = EmptyReq
    /\ path = <<>>
    /\ file = <<>>
    /\ wire = <<>>
    /\ hops = 0

serverVars == <<fs, server, pc, input, request, path, file, wire, hops>>

InitNormalize ==
    /\ Idle
    /\ arg \in StringsUpTo(PathAlphabet, MaxLen)
    /\ ret = <<>>

CallNormalize ==
    /\ Len(ret) = 0
    /\ ret' = <<normalize_path(arg)>>
    /\ UNCHANGED <<serverVars, arg>>

CallNormalizeAgain ==
    /\ Len(ret) = 1
    /\ ret' = Append(ret, normalize_path(ret[1]))
    /\ UNCHANGED <<serverVars, arg>>

NextNormalize == CallNormalize \/ CallNormalizeAgain

SpecNormalize == InitNormalize /\ [][NextNormalize]_vars

\* C7: normalize_path returns for every raw path, and normalising its result
\* again returns that result unchanged.
NormalizeIdempotent == Len(ret) = 2 => ret[2] = ret[1]

NormalizeIdempotentWitness ==
    /\ Len(ret) = 2
    /\ ret[1] # arg
    /\ ret[1] # <<>>
    /\ Contains(arg, ".")

---------------------------------------------------------------------------
(* Harness for mime_type: apply it to a file path.                         *)

NameParts == {<<>>, A, HTML, HTM, JPEG, JPG, PNG, TXT, CSS, JS, JSON, <<"H", "T", "M", "L">>, <<"z", "i", "p">>}

\* n parts joined by dots
RECURSIVE NamesOf(_)
NamesOf(n) ==
    IF n = 1 THEN NameParts
    ELSE {name \o DOT \o part : name \in NamesOf(n - 1), part \in NameParts}

FileNames == UNION {NamesOf(n) : n \in 1..MaxParts}

FilePaths == FileNames \cup {<<"a", ".", "j", "s", "/">> \o name : name \in NamesOf(1)}

InitMime ==
    /\ Idle
    /\ arg \in FilePaths
    /\ ret = <<>>

CallMime ==
    /\ Len(ret) = 0
    /\ ret' = <<mime_type(arg)>>
    /\ UNCHANGED <<serverVars, arg>>

NextMime == CallMime

SpecMime == InitMime /\ [][NextMime]_vars

---------------------------------------------------------------------------
(* Properties.                                                             *)

Resolved == pc \in {"respond", "done", "failed"}

\* no probe of the lookup steps above the served root
Contained(p) ==
    /\ p # <<>>
    /\ ~starts_with(p, "/")
    /\ \/ p = DOT
       \/ \A i \in 1..Len(Split(p, "/")) :
             LET seg == Split(p, "/")[i] IN seg # <<>> /\ seg # DOT /\ seg # DOTDOT

\* C1: the path process_request probes is root-relative: it does not begin
\* with '/', none of its segments is empty, '.' or '..' (but for the lone
\* '.' of the root), and looking it up never steps above the served root,
\* whatever literal or percent-encoded '..' the target carries.
TraversalContained ==
    Resolved =>
        /\ Contained(path)
        /\ Kind(fs, path) # "outside"
        /\ Kind(fs, path \o SLASH \o INDEX_HTML) # "outside"
        /\ Kind(fs, path \o SLASH \o INDEX_HTM) # "outside"

TraversalContainedWitness ==
    /\ pc = "respond"
    /\ request.path = <<"/", ".", ".", "%", "2", "F", "%", "2", "e", "%", "2", "e", "%", "2", "F", "a">>
    /\ path = A

\* C2: a failure while serving one connection never ends the server
\* process: the accept loop keeps running.
ErrorIsolation == server = "listening"

Outcome(w) ==
    [status |-> StatusOf(w),
     body |-> IF Len(w) >= 4 THEN <<w[4].kind, w[4].arg>> ELSE <<>>]

\* C3: a served request gets the outcome of the first matching rule: the
\* path is a file, its index.html is a file, its index.htm is a file, it is a
\* directory (301 when the request path lacks the trailing '/', the listing
\* otherwise), and 404 otherwise.
ClassificationOrder ==
    pc = "done" =>
        LET indexHtml == path \o SLASH \o INDEX_HTML
            indexHtm == path \o SLASH \o INDEX_HTM
        IN Outcome(wire) =
              IF Kind(fs, path) = "file"
              THEN [status |-> "HTTP/1.1 200 OK", body |-> <<"file", path>>]
              ELSE IF Kind(fs, indexHtml) = "file"
              THEN [status |-> "HTTP/1.1 200 OK", body |-> <<"file", indexHtml>>]
              ELSE IF Kind(fs, indexHtm) = "file"
              THEN [status |-> "HTTP/1.1 200 OK", body |-> <<"file", indexHtm>>]
              ELSE IF Kind(fs, path) = "dir"
              THEN IF request.path[Len(request.path)] # "/"
                   THEN [status |-> "HTTP/1.1 301 Moved Permanently", body |-> <<>>]
                   ELSE [status |-> "HTTP/1.1 200 OK", body |-> <<"listing", path>>]
              ELSE [status |-> "HTTP/1.1 404 Not Found", body |-> <<>>]

ClassificationOrderWitness ==
    /\ pc = "done"
    /\ path = A
    /\ request.path = <<"/", "a">>
    /\ fs[<<A, INDEX_HTML>>] = "file"
    /\ fs[<<A, INDEX_HTM>>] = "file"
    /\ Outcome(wire).body = <<"file", A \o SLASH \o INDEX_HTML>>

StatusLines == {"HTTP/1.1 200 OK", "HTTP/1.1 301 Moved Permanently", "HTTP/1.1 404 Not Found"}

IsStatusLine(c) == c.kind = "line" /\ c.text \in StatusLines /\ c.arg = <<>> /\ c.tail = CRLF

IsBlankLine(c) == c.kind = "line" /\ c.text = "" /\ c.arg = <<>> /\ c.tail = CRLF

IsHeaderLine(c) == c.kind = "line" /\ c.text # "" /\ c.text \notin StatusLines /\ c.tail = CRLF

IsBody(c) == c.kind \in {"file", "listing"}

\* C4: every response written is a status line, header lines, a blank line
\* and then the body; the 404 response is its status line and a blank line.
WireFormat ==
    pc = "done" =>
        /\ IsStatusLine(wire[1])
        /\ \E k \in 2..Len(wire) :
              /\ IsBlankLine(wire[k])
              /\ \A j \in 2..(k - 1) : IsHeaderLine(wire[j])
              /\ \A j \in (k + 1)..Len(wire) : IsBody(wire[j])

\* what process_request writes for a valid GET of `target`
Served(f, target) ==
    LET p == ResolvePath(target).val IN Response(f, target, p, FindFile(f, p))

\* C5: a target P?Q is classified as the target P is: the text after the
\* first '?' has no influence on the outcome.
QueryIgnored ==
    (pc = "done" /\ Contains(request.path, "?")) =>
        Outcome(wire) = Outcome(Served(fs, BeforeFirst(request.path, "?")))

\* C6: a request line that does not split on spaces into exactly three
\* tokens is rejected: it is never served, nothing is written for it.
ExactlyThreeTokens ==
    (input # <<>> /\ Len(Split(input[1], " ")) # 3) => (pc # "done" /\ wire = <<>>)

AfterLastDot(name) == Split(name, ".")[Len(Split(name, "."))]

MimeTable(ext) ==
    CASE ext \in {HTML, HTM} -> "text/html"
      [] ext \in {JPG, JPEG} -> "image/jpeg"
      [] ext = PNG -> "image/png"
      [] ext = TXT -> "text/plain"
      [] ext = CSS -> "text/css"
      [] ext = JS -> "text/javascript"
      [] ext = JSON -> "application/json"
      [] OTHER -> DEFAULT_MIME_TYPE

\* C8: the content type is that of the text after the last '.' of the file
\* name in the table; a file name without a '.', whatever it is, and an
\* extension outside the table give application/octet-stream.
MimeByExtension ==
    (Len(ret) = 1 /\ ret[1].ok) =>
        LET name == file_name(arg)[1] IN
        ret[1].val = IF Contains(name, ".") THEN MimeTable(AfterLastDot(name))
                     ELSE DEFAULT_MIME_TYPE

\* a '%' that is not followed by two hexadecimal digits
BadEscape(s) ==
    \E i \in 1..Len(s) :
        s[i] = "%" /\ ~(i + 2 <= Len(s) /\ IsHex(s[i + 1]) /\ IsHex(s[i + 2]))

\* the requests that fail: no request line, fewer than three tokens, a
\* method other than GET, a version other than HTTP/1.1, a target that does
\* not begin with '/', a malformed escape before the query
Fails(lines) ==
    \/ lines = <<>>
    \/ LET tokens == Split(lines[1], " ") IN
       \/ Len(tokens) < 3
       \/ /\ Len(tokens) >= 3
          /\ \/ tokens[1] # GET
             \/ tokens[3] # HTTP11
             \/ tokens[2] = <<>>
             \/ tokens[2][1] # "/"
             \/ BadEscape(BeforeFirst(tokens[2], "?"))

NoRedirectLoop ==
    /\ (pc = "done" /\ IsRedirect(wire)) =>
          (hops = 0 /\ LocationOf(wire) = request.path \o SLASH)
    /\ hops > 0 => (hops = 1 /\ server # "aborted")
    /\ (hops > 0 /\ pc = "done") => StatusOf(wire) = "HTTP/1.1 200 OK"

NoRedirectLoopWitness ==
    /\ hops = 1
    /\ pc = "done"
    /\ request.path = <<"/", "a", "?", "q", "/">>
    /\ Outcome(wire).body = <<"listing", A>>

=============================================================================
